---- MODULE Spec2Model ----
(***************************************************************************)
(* Model of web_app.py: the Flask front end of the CL-RAM thesis           *)
(* visualisation tool.  The module has three layers:                       *)
(*   1. strings (sequences of one-character strings) and the str methods   *)
(*      the code calls on them;                                            *)
(*   2. the loaders: parse_text_log, pd.read_csv, json.load+pd.DataFrame,  *)
(*      and the suffix dispatch of generate_visualizations;                *)
(*   3. the web application: upload_file, reset, and the statements of     *)
(*      generate_visualizations run by background threads over the shared  *)
(*      current_status dictionary and the file system.                     *)
(***************************************************************************)
EXTENDS Integers, Sequences, FiniteSets, TLC

(***************************************************************************)
(* Bounds of the model.                                                    *)
(***************************************************************************)
\* threads started by upload_file in one behaviour of Spec
MaxRuns == 2
\* viz.create_* calls that raise in one behaviour
MaxRaises == 1
\* POST /reset requests in one behaviour of Spec
MaxResets == 1
\* seconds the wall clock advances in one behaviour of Spec
MaxTicks == 1
\* lines of a text log in SpecLoad
MaxTextLines == 3
\* data rows of a CSV file in SpecLoad
MaxCsvRows == 2
\* elements of a top-level JSON list in SpecLoad
MaxJsonItems == 2
\* lines carrying the same label in one block of a text log of SpecText
MaxRepeats == 3
\* blank lines between two groups of a text log of SpecText
MaxBlankLines == 3

(***************************************************************************)
(* Layer 1: strings.  A str is a sequence of one-character strings.        *)
(***************************************************************************)
UpperChars == <<"A","B","C","D","E","F","G","H","I","J","K","L","M",
                "N","O","P","Q","R","S","T","U","V","W","X","Y","Z">>
LowerChars == <<"a","b","c","d","e","f","g","h","i","j","k","l","m",
                "n","o","p","q","r","s","t","u","v","w","x","y","z">>
Digits == <<"0","1","2","3","4","5","6","7","8","9">>

SeqRange(s) == {s[i] : i \in 1..Len(s)}

IndexIn(c, s) == CHOOSE i \in 1..Len(s) : s[i] = c

SetMin(S) == CHOOSE x \in S : \A y \in S : x <= y
SetMax(S) == CHOOSE x \in S : \A y \in S : x >= y

\* str.lower() on one character
LowerChar(c) ==
    IF c \in SeqRange(UpperChars) THEN LowerChars[IndexIn(c, UpperChars)] ELSE c

\* str.lower()
Lower(s) == [i \in 1..Len(s) |-> LowerChar(s[i])]

\* the characters str.strip() removes (the ASCII whitespace the inputs use)
IsSpace(c) == c \in {" ", "\t", "\n", "\r"}

\* str.strip()
Strip(s) ==
    LET keep == {i \in 1..Len(s) : ~IsSpace(s[i])}
    IN  IF keep = {} THEN <<>> ELSE SubSeq(s, SetMin(keep), SetMax(keep))

\* positions at which sub occurs in s
Occurrences(s, sub) ==
    {i \in 1..(Len(s) - Len(sub) + 1) : SubSeq(s, i, i + Len(sub) - 1) = sub}

\* the Python expression  sub in s
Contains(s, sub) == Occurrences(s, sub) # {}

\* str.split(sep): cut at every non-overlapping occurrence, left to right
RECURSIVE Split(_, _)
Split(s, sep) ==
    IF Occurrences(s, sep) = {} THEN <<s>>
    ELSE LET i == SetMin(Occurrences(s, sep))
         IN  <<SubSeq(s, 1, i - 1)>> \o Split(SubSeq(s, i + Len(sep), Len(s)), sep)

\* str.split(sep, 1)[1]: what follows the first occurrence of sep
\* (called only on strings that contain sep)
AfterFirst(s, sep) ==
    LET i == SetMin(Occurrences(s, sep))
    IN  SubSeq(s, i + Len(sep), Len(s))

\* str.rsplit(sep, 1)[1]: what follows the last occurrence of sep
AfterLast(s, sep) ==
    LET i == SetMax(Occurrences(s, sep))
    IN  SubSeq(s, i + Len(sep), Len(s))

RECURSIVE Concat(_)
Concat(ss) == IF ss = <<>> THEN <<>> ELSE Head(ss) \o Concat(Tail(ss))

\* text-mode read(): universal newlines turn "\r\n" and "\r" into "\n"
RECURSIVE ReadText(_)
ReadText(b) ==
    IF b = <<>> THEN <<>>
    ELSE IF Head(b) = "\r"
         THEN <<"\n">> \o ReadText(IF Len(b) >= 2 /\ b[2] = "\n"
                                   THEN SubSeq(b, 3, Len(b)) ELSE Tail(b))
         ELSE <<Head(b)>> \o ReadText(Tail(b))

(***************************************************************************)
(* Numbers.  A decimal m * 10^e is kept normalised (m has no trailing      *)
(* zero, 0 is 0 * 10^0), so that "0.5", "0.50" and ".5" are one value.     *)
(***************************************************************************)
RECURSIVE Normalise(_, _)
Normalise(m, e) ==
    IF m = 0 THEN <<0, 0>>
    ELSE IF e < 0 /\ m % 10 = 0 THEN Normalise(m \div 10, e + 1)
    ELSE <<m, e>>

RECURSIVE DigitsValue(_)
DigitsValue(ds) ==
    IF ds = <<>> THEN 0
    ELSE 10 * DigitsValue(SubSeq(ds, 1, Len(ds) - 1))
         + (IndexIn(ds[Len(ds)], Digits) - 1)

AllDigits(s) == \A i \in 1..Len(s) : s[i] \in SeqRange(Digits)

\* the string without a leading sign
Unsigned(s) == IF s # <<>> /\ s[1] \in {"+", "-"} THEN Tail(s) ELSE s
Sign(s) == IF s # <<>> /\ s[1] = "-" THEN -1 ELSE 1

\* int(s) succeeds: digits with an optional sign
IsIntText(s) == Unsigned(s) # <<>> /\ AllDigits(Unsigned(s))

\* float(s) succeeds on a decimal literal: optional sign, digits with at
\* most one point and at least one digit (exponents, inf and nan are not
\* among the inputs of the model)
IsFloatText(s) ==
    LET u == Unsigned(s)
        parts == Split(u, <<".">>)
    IN  /\ Len(parts) \in {1, 2}
        /\ \A i \in 1..Len(parts) : AllDigits(parts[i])
        /\ Concat(parts) # <<>>

\* the value float(s) returns, as a normalised <<mantissa, exponent>>
FloatValue(s) ==
    LET u == Unsigned(s)
        parts == Split(u, <<".">>)
        frac == IF Len(parts) = 2 THEN parts[2] ELSE <<>>
    IN  Normalise(Sign(s) * DigitsValue(parts[1] \o frac), 0 - Len(frac))

(***************************************************************************)
(* Layer 2: values, dictionaries and DataFrames.                           *)
(*                                                                         *)
(* A cell is [t, s, m, e]: t is its Python type ("str", "int", "float",    *)
(* "bool", "none" for None and "nan" for a missing value), s its text when *)
(* a str, <<m, e>> its value when a number (True is 1).                    *)
(***************************************************************************)
StrCell(s) == [t |-> "str", s |-> s, m |-> 0, e |-> 0]
IntCell(n) == [t |-> "int", s |-> <<>>, m |-> n, e |-> 0]
FloatCell(v) == [t |-> "float", s |-> <<>>, m |-> v[1], e |-> v[2]]
BoolCell(b) == [t |-> "bool", s |-> <<>>, m |-> IF b THEN 1 ELSE 0, e |-> 0]
NoneCell == [t |-> "none", s |-> <<>>, m |-> 0, e |-> 0]
NaN == [t |-> "nan", s |-> <<>>, m |-> 0, e |-> 0]

\* pd.isna(cell) is False
HasValue(c) == c.t \notin {"none", "nan"}

\* A dict is the sequence of its <<key, value>> items in insertion order.
DictKeys(d) == {d[i][1] : i \in 1..Len(d)}
DictHas(d, k) == k \in DictKeys(d)
DictGet(d, k) == d[CHOOSE i \in 1..Len(d) : d[i][1] = k][2]

\* a dict whose keys keep their first value (not what the code does)
DictKeepFirst(d, k, v) == IF DictHas(d, k) THEN d ELSE Append(d, <<k, v>>)

\* d[k] = v: a present key keeps its place, a new one goes last
DictSet(d, k, v) ==
    IF DictHas(d, k)
    THEN [i \in 1..Len(d) |-> IF d[i][1] = k THEN <<k, v>> ELSE d[i]]
    ELSE Append(d, <<k, v>>)

\* the keys of a list of dicts, in the order they first appear
RECURSIVE KeysInOrder(_, _)
KeysInOrder(dicts, seen) ==
    IF dicts = <<>> THEN seen
    ELSE LET d == Head(dicts)
             new == SelectSeq([i \in 1..Len(d) |-> d[i][1]],
                              LAMBDA k : k \notin SeqRange(seen))
         IN  KeysInOrder(Tail(dicts), seen \o new)

\* A DataFrame is [cols, rows]: the column labels in order and, per row, a
\* function from the labels to cells.
EmptyFrame == [cols |-> <<>>, rows |-> <<>>]

\* the dtype pandas gives a column: a column of numbers with a missing
\* value is float64, so its ints become floats and its None becomes NaN
NumericColumn(cells) ==
    /\ \A i \in 1..Len(cells) : cells[i].t \in {"int", "float", "none", "nan"}
    /\ \E i \in 1..Len(cells) : cells[i].t \in {"int", "float"}

FloatColumn(cells) ==
    /\ NumericColumn(cells)
    /\ \E i \in 1..Len(cells) : cells[i].t \in {"float", "none", "nan"}

CoerceCell(c, cells) ==
    IF ~FloatColumn(cells) THEN c
    ELSE IF c.t = "int" THEN FloatCell(<<c.m, c.e>>)
    ELSE IF c.t = "none" THEN NaN
    ELSE c

\* pd.DataFrame(list of dicts): the union of the keys, a key a dict lacks
\* is a missing value in its row
DataFrameFromDicts(dicts) ==
    LET cols == KeysInOrder(dicts, <<>>)
        raw(i, k) == IF DictHas(dicts[i], k) THEN DictGet(dicts[i], k) ELSE NaN
        column(k) == [i \in 1..Len(dicts) |-> raw(i, k)]
    IN  [cols |-> cols,
         rows |-> [i \in 1..Len(dicts) |->
                     [k \in SeqRange(cols) |-> CoerceCell(raw(i, k), column(k))]]]

\* len(df)
FrameLen(df) == Len(df.rows)

\* row i of df has a value under label k
RowHas(df, i, k) == k \in SeqRange(df.cols) /\ HasValue(df.rows[i][k])

(***************************************************************************)
(* parse_text_log                                                          *)
(***************************************************************************)
Colon == <<":">>
NL == <<"\n">>
LabelModel == <<"M","o","d","e","l",":">>
LabelCategory == <<"C","a","t","e","g","o","r","y",":">>
LabelLanguage == <<"L","a","n","g","u","a","g","e",":">>
LabelTemperature == <<"T","e","m","p","e","r","a","t","u","r","e",":">>
LabelSuccess == <<"S","u","c","c","e","s","s",":">>

\* the two spellings the code tests for: as written and with a small initial
HasLabel(line, label) ==
    Contains(line, label) \/ Contains(line, <<LowerChar(label[1])>> \o Tail(label))

TruthyStrings ==
    { <<"t","r","u","e">>, <<"1">>, <<"y","e","s">>,
      <<"s","u","c","c","e","s","s">> }

\* line.split(':', 1)[1].strip()
LineValue(line) == Strip(AfterFirst(line, Colon))

\* one iteration of the loop over the lines of a block
ParseLine(test, rawline) ==
    LET line == Strip(rawline)
    IN  IF HasLabel(line, LabelModel)
        THEN DictSet(test, "model", StrCell(LineValue(line)))
        ELSE IF HasLabel(line, LabelCategory)
        THEN DictSet(test, "category", StrCell(LineValue(line)))
        ELSE IF HasLabel(line, LabelLanguage)
        THEN DictSet(test, "language", StrCell(LineValue(line)))
        ELSE IF HasLabel(line, LabelTemperature)
        THEN IF IsFloatText(LineValue(line))
             THEN DictSet(test, "temperature", FloatCell(FloatValue(LineValue(line))))
             ELSE test
        ELSE IF HasLabel(line, LabelSuccess)
        THEN DictSet(test, "success",
                     IntCell(IF Lower(LineValue(line)) \in TruthyStrings THEN 1 ELSE 0))
        ELSE test

RECURSIVE ParseLines(_, _)
ParseLines(test, lines) ==
    IF lines = <<>> THEN test
    ELSE ParseLines(ParseLine(test, Head(lines)), Tail(lines))

\* the dict built from one block
ParseBlock(block) == ParseLines(<<>>, Split(block, NL))

\* the gate that appends a block's dict to data
BlockAccepted(test) == DictHas(test, "model") /\ DictHas(test, "category")

\* blocks = [b.strip() for b in content.split('\n\n') if b.strip()]
TextBlocks(content) ==
    LET parts == Split(content, NL \o NL)
        kept == SelectSeq(parts, LAMBDA b : Strip(b) # <<>>)
    IN  [i \in 1..Len(kept) |-> Strip(kept[i])]

\* data: the accepted dicts in block order
TextData(content) ==
    LET blocks == TextBlocks(content)
        tests == [i \in 1..Len(blocks) |-> ParseBlock(blocks[i])]
    IN  SelectSeq(tests, BlockAccepted)

(***************************************************************************)
(* Files.  A file's content is kept in the form its format gives it:       *)
(*   text  the characters of a text log;                                   *)
(*   csv   the header's column names and, per data line, the texts of its  *)
(*         fields (every line has as many fields as the header);          *)
(*   json  the JSON value: a list of objects, one object, or a scalar;     *)
(*         an object is the sequence of its <<key, token>> members and a   *)
(*         token is [j, s], the JSON literal's kind and text;              *)
(*   bad   bytes that are not UTF-8, which no loader can decode.           *)
(* The tokenisers of pandas and json are not modelled; what they hand to   *)
(* type inference and to pd.DataFrame is.                                  *)
(***************************************************************************)
TextFile(chars) ==
    [kind |-> "text", text |-> chars, header |-> <<>>, rows |-> <<>>,
     shape |-> "none", objects |-> <<>>, token |-> [j |-> "null", s |-> <<>>]]
CsvFile(header, rows) ==
    [kind |-> "csv", text |-> <<>>, header |-> header, rows |-> rows,
     shape |-> "none", objects |-> <<>>, token |-> [j |-> "null", s |-> <<>>]]
JsonListFile(objects) ==
    [kind |-> "json", text |-> <<>>, header |-> <<>>, rows |-> <<>>,
     shape |-> "list", objects |-> objects, token |-> [j |-> "null", s |-> <<>>]]
JsonObjectFile(object) ==
    [kind |-> "json", text |-> <<>>, header |-> <<>>, rows |-> <<>>,
     shape |-> "object", objects |-> <<object>>, token |-> [j |-> "null", s |-> <<>>]]
JsonScalarFile(token) ==
    [kind |-> "json", text |-> <<>>, header |-> <<>>, rows |-> <<>>,
     shape |-> "scalar", objects |-> <<>>, token |-> token]
BadFile ==
    [kind |-> "bad", text |-> <<>>, header |-> <<>>, rows |-> <<>>,
     shape |-> "none", objects |-> <<>>, token |-> [j |-> "null", s |-> <<>>]]

\* An exception is [type, arg]: str(e) is the message `type` followed by arg
\* (for the exceptions of pandas and json, `type` is the class name).
Exc(type, arg) == [type |-> type, arg |-> arg]
NoExc == Exc("None", <<>>)

\* What a loading step gives: a DataFrame, None, or a raised exception.
Loaded(df) == [ok |-> TRUE, none |-> FALSE, df |-> df, exc |-> NoExc]
LoadedNone == [ok |-> TRUE, none |-> TRUE, df |-> EmptyFrame, exc |-> NoExc]
Raised(e) == [ok |-> FALSE, none |-> FALSE, df |-> EmptyFrame, exc |-> e]

\* parse_text_log(filepath): any exception inside is caught and gives None
ParseTextLog(file) ==
    IF file.kind # "text" THEN LoadedNone
    ELSE LET data == TextData(ReadText(file.text))
         IN  IF data # <<>> THEN Loaded(DataFrameFromDicts(data)) ELSE LoadedNone

\* the strings read_csv takes for a missing value (those the inputs use)
NaStrings == { <<>>, <<"N","A">>, <<"N","a","N">>, <<"n","a","n">>,
               <<"n","u","l","l">> }

\* the dtype read_csv infers for a column from the texts of its fields
CsvColumnType(texts) ==
    LET vals == SelectSeq(texts, LAMBDA t : t \notin NaStrings)
        all(P(_)) == \A i \in 1..Len(vals) : P(vals[i])
    IN  IF vals = <<>> THEN "float"
        ELSE IF all(IsIntText) THEN (IF Len(vals) = Len(texts) THEN "int" ELSE "float")
        ELSE IF all(IsFloatText) THEN "float"
        ELSE "object"

CsvCell(text, type) ==
    IF text \in NaStrings THEN NaN
    ELSE IF type = "int" THEN IntCell(FloatValue(text)[1])
    ELSE IF type = "float" THEN FloatCell(FloatValue(text))
    ELSE StrCell(text)

\* pd.read_csv(filepath, encoding='utf-8')
ReadCsv(file) ==
    IF file.kind # "csv" THEN Raised(Exc("UnicodeDecodeError", <<>>))
    ELSE IF file.header = <<>> THEN Raised(Exc("EmptyDataError", <<>>))
    ELSE LET h == file.header
             \* skip_blank_lines: an empty line is no row
             lines == SelectSeq(file.rows, LAMBDA r : ~(Len(h) = 1 /\ r = << <<>> >>))
             col(j) == [i \in 1..Len(lines) |-> lines[i][j]]
             type(j) == CsvColumnType(col(j))
         IN  Loaded([cols |-> h,
                     rows |-> [i \in 1..Len(lines) |->
                                 [k \in SeqRange(h) |->
                                    CsvCell(lines[i][IndexIn(k, h)],
                                            type(IndexIn(k, h)))]]])

\* the Python value json.load gives for a literal
JsonCell(token) ==
    IF token.j = "string" THEN StrCell(token.s)
    ELSE IF token.j = "number"
         THEN (IF IsIntText(token.s) THEN IntCell(FloatValue(token.s)[1])
               ELSE FloatCell(FloatValue(token.s)))
    ELSE IF token.j = "true" THEN BoolCell(TRUE)
    ELSE IF token.j = "false" THEN BoolCell(FALSE)
    ELSE NoneCell

JsonDict(object) == [i \in 1..Len(object) |-> <<object[i][1], JsonCell(object[i][2])>>]

\* pd.DataFrame([x]) for a scalar x: one row under the column label 0
ScalarFrame(cell) == [cols |-> <<"0">>, rows |-> << [k \in {"0"} |-> cell] >>]

\* data = json.load(f); df = pd.DataFrame(data if isinstance(data, list) else [data])
LoadJson(file) ==
    IF file.kind # "json" THEN Raised(Exc("JSONDecodeError", <<>>))
    ELSE IF file.shape = "scalar" THEN Loaded(ScalarFrame(JsonCell(file.token)))
    ELSE Loaded(DataFrameFromDicts([i \in 1..Len(file.objects) |->
                                      JsonDict(file.objects[i])]))

(***************************************************************************)
(* Paths.  A path is [ts, name]: the upload's timestamp prefix (NoTs when  *)
(* the path has none) and the rest of the file name.                       *)
(***************************************************************************)
NoTs == 0 - 1

\* datetime.now().strftime("%Y%m%d_%H%M%S") at second n of the model's clock
TimeStamp(n) ==
    <<"2","0","2","6","0","1","0","1","_","0","0","0","0","0">> \o <<Digits[n + 1]>>

\* the final component of the path
PathName(p) == IF p.ts = NoTs THEN p.name ELSE TimeStamp(p.ts) \o <<"_">> \o p.name

\* Path.suffix: from the last dot of the name, when that dot is neither the
\* first nor the last character
Suffix(name) ==
    LET dots == Occurrences(name, <<".">>)
    IN  IF dots = {} THEN <<>>
        ELSE IF SetMax(dots) = 1 \/ SetMax(dots) = Len(name) THEN <<>>
        ELSE SubSeq(name, SetMax(dots), Len(name))

ExtCsv == <<".","c","s","v">>
ExtJson == <<".","j","s","o","n">>
ExtTxt == <<".","t","x","t">>

\* the dispatch with the suffix compared as written (no .lower())
StrategyCaseSensitive(p) ==
    LET ext == Suffix(PathName(p))
    IN  IF ext = ExtCsv THEN "csv"
        ELSE IF ext = ExtJson THEN "json"
        ELSE IF ext = ExtTxt THEN "txt"
        ELSE "unsupported"

\* the branch of the if/elif chain a path takes
Strategy(p) ==
    LET ext == Lower(Suffix(PathName(p)))
    IN  IF ext = ExtCsv THEN "csv"
        ELSE IF ext = ExtJson THEN "json"
        ELSE IF ext = ExtTxt THEN "txt"
        ELSE "unsupported"

\* the load step of generate_visualizations on a path holding `file`
LoadData(p, file) ==
    IF Strategy(p) = "csv" THEN ReadCsv(file)
    ELSE IF Strategy(p) = "json" THEN LoadJson(file)
    ELSE IF Strategy(p) = "txt"
         THEN (IF ParseTextLog(file).none
               THEN Raised(Exc("Failed to parse text file", <<>>))
               ELSE ParseTextLog(file))
    ELSE Raised(Exc("Unsupported file type: ", Suffix(PathName(p))))

(***************************************************************************)
(* upload_file's checks on the client's file name.                         *)
(***************************************************************************)
AllowedExts == { <<"c","s","v">>, <<"j","s","o","n">>, <<"t","x","t">> }

\* allowed_file(filename)
AllowedFile(filename) ==
    /\ Contains(filename, <<".">>)
    /\ Lower(AfterLast(filename, <<".">>)) \in AllowedExts

\* a character outside ASCII that NFKD does not decompose into ASCII (a
\* Cyrillic letter), written as its code point
NonAscii == "U+0444"

\* the characters secure_filename keeps: [A-Za-z0-9_.-]
SafeChar(c) ==
    c \in SeqRange(UpperChars) \cup SeqRange(LowerChars) \cup SeqRange(Digits)
          \cup {"_", ".", "-"}

\* str.strip("._")
StripDotsUnderscores(s) ==
    LET keep == {i \in 1..Len(s) : s[i] \notin {".", "_"}}
    IN  IF keep = {} THEN <<>> ELSE SubSeq(s, SetMin(keep), SetMax(keep))

\* werkzeug's secure_filename: drop what is not ASCII, turn path separators
\* and white space into "_", drop the unsafe characters, strip "._"
SecureFilename(filename) ==
    LET ascii == SelectSeq(filename, LAMBDA c : c # NonAscii)
        spaced == [i \in 1..Len(ascii) |-> IF ascii[i] = "/" THEN " " ELSE ascii[i]]
        words == SelectSeq(Split(Strip(spaced), <<" ">>), LAMBDA w : w # <<>>)
        joined == IF words = <<>> THEN <<>>
                  ELSE Head(words) \o Concat([i \in 1..(Len(words) - 1) |->
                                                 <<"_">> \o words[i + 1]])
    IN  StripDotsUnderscores(SelectSeq(joined, SafeChar))

(***************************************************************************)
(* The stages of generate_visualizations: each sets a message and a        *)
(* progress value, then makes its viz calls inside one try block.          *)
(***************************************************************************)
Stages == <<
    [message |-> "Generating linear progression charts...", progress |-> 20,
     calls |-> <<"create_linear_progression_charts">>],
    [message |-> "Generating temperature analysis...", progress |-> 30,
     calls |-> <<"create_enhanced_temperature_analysis",
                 "create_temperature_heatmaps",
                 "create_2d_temperature_language_comparison">>],
    [message |-> "Generating bar charts...", progress |-> 40,
     calls |-> <<"create_enhanced_bar_charts">>],
    [message |-> "Generating pie charts...", progress |-> 50,
     calls |-> <<"create_pie_charts">>],
    [message |-> "Generating heatmaps...", progress |-> 60,
     calls |-> <<"create_model_language_heatmap",
                 "create_category_language_heatmap">>],
    [message |-> "Generating dashboard...", progress |-> 70,
     calls |-> <<"create_analysis_summary_dashboard">>],
    [message |-> "Generating statistical tables...", progress |-> 80,
     calls |-> <<"create_comparison_tables",
                 "create_temperature_comparison_table",
                 "create_model_specific_category_tables">>],
    [message |-> "Generating model-specific analysis...", progress |-> 90,
     calls |-> <<"create_model_specific_temperature_language_analysis",
                 "create_models_temperature_language_summary",
                 "create_detailed_model_language_comparison">>],
    [message |-> "Generating HTML report...", progress |-> 95,
     calls |-> <<"create_simple_html_report">>] >>

NumStages == Len(Stages)

AllCalls == UNION {SeqRange(Stages[i].calls) : i \in 1..NumStages}

\* The file a viz call leaves in the output directory when it returns: a
\* table for the *_table(s) calls, the report for the report call, a chart
\* for the others.  The file is named after the call, so a second run that
\* writes to the same directory overwrites it.
ArtifactKind(call) ==
    IF call \in {"create_comparison_tables", "create_temperature_comparison_table",
                 "create_model_specific_category_tables"} THEN "csv"
    ELSE IF call = "create_simple_html_report" THEN "html"
    ELSE "png"

\* output_dir.glob("**/*.png") and glob("**/*.csv") over a directory's files
Glob(files, kind) == {f \in files : ArtifactKind(f) = kind}

\* The aggregate family (section 4.4 of the specification) a viz call
\* computes; 0 for the report, which is no aggregate.
FamilyOf(call) ==
    IF call = "create_linear_progression_charts" THEN 1
    ELSE IF call \in {"create_enhanced_temperature_analysis",
                      "create_temperature_heatmaps",
                      "create_2d_temperature_language_comparison",
                      "create_temperature_comparison_table",
                      "create_model_specific_temperature_language_analysis",
                      "create_models_temperature_language_summary"} THEN 2
    ELSE IF call \in {"create_enhanced_bar_charts", "create_pie_charts"} THEN 3
    ELSE IF call \in {"create_model_language_heatmap",
                      "create_category_language_heatmap",
                      "create_detailed_model_language_comparison"} THEN 4
    ELSE IF call \in {"create_analysis_summary_dashboard",
                      "create_comparison_tables"} THEN 5
    ELSE IF call = "create_model_specific_category_tables" THEN 6
    ELSE 0

(***************************************************************************)
(* Layer 3: the state of the web application.                              *)
(***************************************************************************)
VARIABLES
    current_status,  \* the global dictionary
    uploads,         \* the uploads folder: path -> content
    outdirs,         \* thesis_visualizations: session timestamp -> files
    clock,           \* the wall clock, in seconds
    threads,         \* the generate_visualizations threads, by number
    started,         \* threads started so far
    resets,          \* POST /reset requests served so far
    faults           \* viz calls that may still raise

vars == <<current_status, uploads, outdirs, clock, threads, started, resets, faults>>

NoDir == 0 - 1

Msg(kind, a, b, exc) == [kind |-> kind, a |-> a, b |-> b, exc |-> exc]

\* the dictionary of lines 24-32 and of reset
ReadyStatus ==
    [running |-> FALSE, progress |-> 0, message |-> Msg("Ready", 0, 0, NoExc),
     output_dir |-> NoDir, charts |-> {}, tables |-> {}, error |-> NoExc]

NoPath == [ts |-> NoTs, name |-> <<>>]

\* a thread that upload_file has not started yet
IdleThread ==
    [pc |-> "idle", stage |-> 0, call |-> 0, filepath |-> NoPath,
     given |-> BadFile, opened |-> FALSE, read |-> BadFile, loader |-> "none",
     df |-> EmptyFrame, output_dir |-> NoDir,
     invoked |-> {}, raised |-> {}, exc |-> NoExc, epoch |-> 0]

\* threading.Thread(target=generate_visualizations, args=(filepath,)).
\* Some fields are history: `given` is the content saved for this thread,
\* `opened` and `read` say whether the load step opened the file and what it
\* held then; `loader` is the branch the load step took; `epoch` is the
\* number of resets served before upload_file started the thread.
NewThread(path, file) ==
    [IdleThread EXCEPT !.pc = "L79", !.filepath = path, !.given = file]

Threads == 1..MaxRuns

Active(t) == threads[t].pc \notin {"idle", "done"}

\* thread t moves to pc `to`, with the fields of `new`
Goto(t, new, to) == threads' = [threads EXCEPT ![t] = [new EXCEPT !.pc = to]]

\* current_status[key] = value, the other variables unchanged
Frame == UNCHANGED <<uploads, outdirs, clock, started, resets, faults>>

(***************************************************************************)
(* generate_visualizations(filepath), statement by statement.              *)
(***************************************************************************)
\* line 79
SetRunning(t) ==
    /\ threads[t].pc = "L79"
    /\ current_status' = [current_status EXCEPT !.running = TRUE]
    /\ Goto(t, threads[t], "L80")
    /\ Frame

\* line 80
SetProgress5(t) ==
    /\ threads[t].pc = "L80"
    /\ current_status' = [current_status EXCEPT !.progress = 5]
    /\ Goto(t, threads[t], "L81")
    /\ Frame

\* line 81
SetLoading(t) ==
    /\ threads[t].pc = "L81"
    /\ current_status' = [current_status EXCEPT
                            !.message = Msg("Loading data...", 0, 0, NoExc)]
    /\ Goto(t, threads[t], "L82")
    /\ Frame

\* line 82
ClearError(t) ==
    /\ threads[t].pc = "L82"
    /\ current_status' = [current_status EXCEPT !.error = NoExc]
    /\ Goto(t, threads[t], "load")
    /\ Frame

\* lines 85-99: the file now at filepath is loaded; a raise goes to the
\* handler of line 205
LoadStep(t) ==
    /\ threads[t].pc = "load"
    /\ LET th == threads[t]
           file == uploads[th.filepath]
           res == LoadData(th.filepath, file)
           seen == IF Strategy(th.filepath) = "unsupported"
                   THEN [th EXCEPT !.loader = "unsupported"]
                   ELSE [th EXCEPT !.opened = TRUE, !.read = file,
                                   !.loader = Strategy(th.filepath)]
       IN  IF res.ok
           THEN Goto(t, [seen EXCEPT !.df = res.df], "L101")
           ELSE Goto(t, [seen EXCEPT !.exc = res.exc], "L206")
    /\ UNCHANGED current_status
    /\ Frame

\* line 101
SetProgress10(t) ==
    /\ threads[t].pc = "L101"
    /\ current_status' = [current_status EXCEPT !.progress = 10]
    /\ Goto(t, threads[t], "L102")
    /\ Frame

\* line 102
SetLoaded(t) ==
    /\ threads[t].pc = "L102"
    /\ current_status' = [current_status EXCEPT
                            !.message = Msg("Loaded", FrameLen(threads[t].df), 0, NoExc)]
    /\ Goto(t, threads[t], "mkdir")
    /\ Frame

\* lines 105-107: session_<now>, created unless it exists
MakeOutputDir(t) ==
    /\ threads[t].pc = "mkdir"
    /\ outdirs' = [d \in DOMAIN outdirs \cup {clock} |->
                     IF d \in DOMAIN outdirs THEN outdirs[d] ELSE {}]
    /\ Goto(t, [threads[t] EXCEPT !.output_dir = clock], "L109")
    /\ UNCHANGED <<current_status, uploads, clock, started, resets, faults>>

\* line 109
SetOutputDir(t) ==
    /\ threads[t].pc = "L109"
    /\ current_status' = [current_status EXCEPT !.output_dir = threads[t].output_dir]
    /\ Goto(t, threads[t], "L110")
    /\ Frame

\* line 110 (and the local of line 113)
SetProgress15(t) ==
    /\ threads[t].pc = "L110"
    /\ current_status' = [current_status EXCEPT !.progress = 15]
    /\ Goto(t, [threads[t] EXCEPT !.stage = 1], "stage_message")
    /\ Frame

\* lines 116, 124, ..., 187: the stage's message
StageMessage(t) ==
    /\ threads[t].pc = "stage_message"
    /\ current_status' = [current_status EXCEPT
                            !.message = Msg(Stages[threads[t].stage].message, 0, 0, NoExc)]
    /\ Goto(t, threads[t], "stage_progress")
    /\ Frame

\* lines 117, 125, ..., 188: the stage's progress
StageProgress(t) ==
    /\ threads[t].pc = "stage_progress"
    /\ current_status' = [current_status EXCEPT
                            !.progress = Stages[threads[t].stage].progress]
    /\ Goto(t, [threads[t] EXCEPT !.call = 1], "viz")
    /\ Frame

\* where a thread goes when its stage's try block is left
AfterStage(th) ==
    IF th.stage < NumStages
    THEN [th EXCEPT !.stage = th.stage + 1, !.call = 0, !.pc = "stage_message"]
    ELSE [th EXCEPT !.stage = 0, !.call = 0, !.pc = "L199"]

\* one viz.create_* call of the stage's try block: it returns, leaving its
\* file in the output directory, or it raises, which ends the try block
VizCall(t) ==
    /\ threads[t].pc = "viz"
    /\ LET th == threads[t]
           name == Stages[th.stage].calls[th.call]
           called == [th EXCEPT !.invoked = th.invoked \cup {name}]
       IN  \E raises \in BOOLEAN :
              IF raises
              THEN /\ faults > 0
                   /\ faults' = faults - 1
                   /\ UNCHANGED outdirs
                   /\ threads' = [threads EXCEPT ![t] =
                          AfterStage([called EXCEPT !.raised = th.raised \cup {name}])]
              ELSE /\ UNCHANGED faults
                   /\ outdirs' = [outdirs EXCEPT ![th.output_dir] = @ \cup {name}]
                   /\ threads' = [threads EXCEPT ![t] =
                          IF th.call < Len(Stages[th.stage].calls)
                          THEN [called EXCEPT !.call = th.call + 1]
                          ELSE AfterStage(called)]
    /\ UNCHANGED <<current_status, uploads, clock, started, resets>>

\* line 199
CollectCharts(t) ==
    /\ threads[t].pc = "L199"
    /\ current_status' = [current_status EXCEPT
                            !.charts = Glob(outdirs[threads[t].output_dir], "png")]
    /\ Goto(t, threads[t], "L200")
    /\ Frame

\* line 200
CollectTables(t) ==
    /\ threads[t].pc = "L200"
    /\ current_status' = [current_status EXCEPT
                            !.tables = Glob(outdirs[threads[t].output_dir], "csv")]
    /\ Goto(t, threads[t], "L202")
    /\ Frame

\* line 202
SetProgress100(t) ==
    /\ threads[t].pc = "L202"
    /\ current_status' = [current_status EXCEPT !.progress = 100]
    /\ Goto(t, threads[t], "L203")
    /\ Frame

\* line 203
SetComplete(t) ==
    /\ threads[t].pc = "L203"
    /\ current_status' = [current_status EXCEPT
                            !.message = Msg("Complete!",
                                            Cardinality(current_status.charts),
                                            Cardinality(current_status.tables), NoExc)]
    /\ Goto(t, threads[t], "L212")
    /\ Frame

\* a handler that also drops the results shown (not what the code does)
SetErrorDropResults(t) ==
    /\ threads[t].pc = "L206"
    /\ current_status' = [current_status EXCEPT !.error = threads[t].exc,
                            !.output_dir = NoDir, !.charts = {}, !.tables = {}]
    /\ Goto(t, threads[t], "L207")
    /\ Frame

\* line 206
SetError(t) ==
    /\ threads[t].pc = "L206"
    /\ current_status' = [current_status EXCEPT !.error = threads[t].exc]
    /\ Goto(t, threads[t], "L207")
    /\ Frame

\* line 207
SetErrorMessage(t) ==
    /\ threads[t].pc = "L207"
    /\ current_status' = [current_status EXCEPT
                            !.message = Msg("Error: ", 0, 0, threads[t].exc)]
    /\ Goto(t, threads[t], "L212")
    /\ Frame

\* a thread that ends without its finally clause (not what the code does)
EndStillRunning(t) ==
    /\ threads[t].pc = "L212"
    /\ UNCHANGED current_status
    /\ Goto(t, threads[t], "done")
    /\ Frame

\* line 212, the finally clause
ClearRunning(t) ==
    /\ threads[t].pc = "L212"
    /\ current_status' = [current_status EXCEPT !.running = FALSE]
    /\ Goto(t, threads[t], "done")
    /\ Frame

(***************************************************************************)
(* The requests.                                                           *)
(***************************************************************************)
\* POST /upload with a file part named `filename` holding `file`: the three
\* early returns answer 400 and change nothing; otherwise the file is saved
\* under uploads/<now>_<secure name>, replacing what is there, and a thread
\* is started on that path
UploadFile(filename, file) ==
    /\ started < MaxRuns
    /\ IF filename = <<>> \/ ~AllowedFile(filename)
       THEN UNCHANGED <<uploads, threads, started>>
       ELSE LET path == [ts |-> clock, name |-> SecureFilename(filename)]
            IN  /\ uploads' = [p \in DOMAIN uploads \cup {path} |->
                                 IF p = path THEN file ELSE uploads[p]]
                /\ threads' = [threads EXCEPT ![started + 1] =
                                  [NewThread(path, file) EXCEPT !.epoch = resets]]
                /\ started' = started + 1
    /\ UNCHANGED <<current_status, outdirs, clock, resets, faults>>

\* POST /reset: the global is rebound to a fresh dictionary, whatever the
\* threads are doing
Reset ==
    /\ resets < MaxResets
    /\ resets' = resets + 1
    /\ current_status' = ReadyStatus
    /\ UNCHANGED <<uploads, outdirs, clock, threads, started, faults>>

\* a second passes
Tick ==
    /\ clock < MaxTicks
    /\ clock' = clock + 1
    /\ UNCHANGED <<current_status, uploads, outdirs, threads, started, resets, faults>>

(***************************************************************************)
(* Inputs.                                                                 *)
(***************************************************************************)
NameA == <<"a">>
NameB == <<"b">>
Junk == <<"j","u","n","k">>
Half == <<"0",".","5">>
NotANumber == <<"x">>

\* the lines a text log of the model is made of
TextLines ==
    { LabelModel \o <<" ">> \o NameA,
      LabelModel,
      LabelCategory \o <<" ">> \o NameB,
      LabelTemperature \o <<" ">> \o Half,
      LabelTemperature \o <<" ">> \o NotANumber,
      Junk }

LineSeparators == { NL, NL \o NL }

\* the text logs of k lines
RECURSIVE TextsOf(_)
TextsOf(k) ==
    IF k = 1 THEN TextLines
    ELSE {t \o sep \o l : t \in TextsOf(k - 1), sep \in LineSeparators, l \in TextLines}

TextInputs == UNION {TextsOf(k) : k \in 1..MaxTextLines}

\* all sequences over S of length at most n
RECURSIVE SeqsUpTo(_, _)
SeqsUpTo(S, n) ==
    IF n = 0 THEN {<<>>}
    ELSE SeqsUpTo(S, n - 1) \cup
         {Append(q, x) : q \in {r \in SeqsUpTo(S, n - 1) : Len(r) = n - 1}, x \in S}

CsvFieldTexts(column) ==
    IF column = "model" THEN {<<>>, NameA}
    ELSE IF column = "category" THEN {<<>>, NameB}
    ELSE {<<>>, Half, NotANumber}

CsvHeaders ==
    { <<"model", "category", "temperature">>, <<"model", "category">>,
      <<"category", "temperature">> }

CsvLines(header) ==
    {r \in [1..Len(header) -> {<<>>, NameA, NameB, Half, NotANumber}] :
        \A j \in 1..Len(header) : r[j] \in CsvFieldTexts(header[j])}

CsvInputs ==
    {CsvFile(<<>>, <<>>)} \cup
    UNION {{CsvFile(h, rows) : rows \in SeqsUpTo(CsvLines(h), MaxCsvRows)} : h \in CsvHeaders}

JsonString(s) == [j |-> "string", s |-> s]
JsonNumber(s) == [j |-> "number", s |-> s]
JsonNull == [j |-> "null", s |-> <<>>]
JsonTrue == [j |-> "true", s |-> <<>>]

\* the members a JSON object of the model may have under a key
JsonMembers(key) ==
    IF key = "model" THEN {JsonString(NameA), JsonString(<<>>)}
    ELSE IF key = "category" THEN {JsonString(NameB)}
    ELSE {JsonNumber(Half), JsonString(NotANumber)}

\* the objects with keys among model, category, temperature, in that order
RECURSIVE JsonObjectsOver(_)
JsonObjectsOver(keys) ==
    IF keys = <<>> THEN {<<>>}
    ELSE LET rest == JsonObjectsOver(Tail(keys))
         IN  rest \cup {<< <<Head(keys), v>> >> \o o : v \in JsonMembers(Head(keys)), o \in rest}

JsonObjects == JsonObjectsOver(<<"model", "category", "temperature">>)

JsonScalars == {JsonNumber(<<"5">>), JsonString(NameA), JsonTrue, JsonNull}

JsonInputs ==
    {JsonScalarFile(tok) : tok \in JsonScalars} \cup
    {JsonObjectFile(o) : o \in JsonObjects} \cup
    {JsonListFile(os) : os \in SeqsUpTo(JsonObjects, MaxJsonItems)}

\* every letter-casing of an extension
Casings(ext) ==
    {[i \in 1..Len(ext) |-> IF up[i] /\ ext[i] \in SeqRange(LowerChars)
                            THEN UpperChars[IndexIn(ext[i], LowerChars)]
                            ELSE ext[i]] : up \in [1..Len(ext) -> BOOLEAN]}

\* names with no supported suffix: another extension, none, a hidden file,
\* a trailing dot, a prefix and an extension of a supported one
OtherNames ==
    { <<"d",".","y","a","m","l">>, <<"d",".","Y","a","m","l">>, <<"d">>,
      <<".","c","s","v">>, <<"d",".","c","s","v",".">>, <<"d",".","c","s">>,
      <<"d",".","c","s","v","x">>, <<"d",".","t","x","t",".","b","a","k">>,
      <<"c","s","v">> }

GoodCsv == CsvFile(<<"model", "category">>, << <<NameA, NameB>> >>)
GoodText == TextFile(LabelModel \o NameA \o NL \o LabelCategory \o NameB)
GoodJson == JsonObjectFile(<< <<"model", JsonString(NameA)>>, <<"category", JsonString(NameB)>> >>)

\* the <<path, content>> pairs generate_visualizations is run on in SpecLoad
LoadInputs ==
    LET at(name) == [ts |-> NoTs, name |-> name]
    IN  {<<at(<<"d">> \o ExtTxt), TextFile(c)>> : c \in TextInputs} \cup
        {<<at(<<"d">> \o ExtCsv), f>> : f \in CsvInputs} \cup
        {<<at(<<"d">> \o ExtJson), f>> : f \in JsonInputs} \cup
        {<<at(<<"d">> \o e), BadFile>> : e \in {ExtTxt, ExtCsv, ExtJson}} \cup
        {<<at(<<"d">> \o e), GoodText>> : e \in Casings(ExtTxt)} \cup
        {<<at(<<"d">> \o e), GoodCsv>> : e \in Casings(ExtCsv)} \cup
        {<<at(<<"d">> \o e), GoodJson>> : e \in Casings(ExtJson)} \cup
        {<<at(n), f>> : n \in OtherNames, f \in {GoodCsv, GoodText}}

\* the <<client file name, content>> pairs posted to /upload in Spec
UploadInputs ==
    { <<NameA \o ExtCsv, GoodCsv>>,
      <<NameA \o ExtCsv, BadFile>>,
      <<NameB \o ExtTxt, TextFile(Junk)>>,
      <<<<NonAscii>> \o ExtCsv, GoodCsv>>,
      <<NameA \o <<".","y","a","m","l">>, GoodCsv>>,
      <<<<>>, GoodCsv>> }

(***************************************************************************)
(* Text logs of SpecText: three families, on the labels' casing, on        *)
(* repeated labels and on the separation of blocks.                        *)
(***************************************************************************)
NameC == <<"c">>
NameD == <<"d">>
One == <<"1">>

JoinLines(lines) ==
    Concat([i \in 1..Len(lines) |-> IF i = 1 THEN lines[i] ELSE NL \o lines[i]])

LabelLine(label, value) == label \o <<" ">> \o value

BaseLines == <<LabelLine(LabelModel, NameA), LabelLine(LabelCategory, NameB)>>

\* one complete block in which one label is written in every letter-casing
CasingLogs ==
    {JoinLines(<<LabelLine(c, NameA), BaseLines[2]>>) : c \in Casings(Lower(LabelModel))} \cup
    {JoinLines(<<BaseLines[1], LabelLine(c, NameB)>>) : c \in Casings(Lower(LabelCategory))} \cup
    {JoinLines(BaseLines \o <<LabelLine(c, <<"e","n">>)>>) : c \in Casings(Lower(LabelLanguage))} \cup
    {JoinLines(BaseLines \o <<LabelLine(c, Half)>>) : c \in Casings(Lower(LabelTemperature))} \cup
    {JoinLines(BaseLines \o <<LabelLine(c, <<"y","e","s">>)>>) : c \in Casings(Lower(LabelSuccess))}

Labels == {LabelModel, LabelCategory, LabelLanguage, LabelTemperature, LabelSuccess}

\* the label as the code also accepts it, with a small initial
SmallInitial(label) == <<LowerChar(label[1])>> \o Tail(label)

\* the lines that repeat a label: two values, the second under the small
\* initial, and for the temperature a value that is no number
RepeatLines(label) ==
    IF label = LabelModel
    THEN {LabelLine(label, NameA), LabelLine(SmallInitial(label), NameC)}
    ELSE IF label = LabelCategory
    THEN {LabelLine(label, NameB), LabelLine(SmallInitial(label), NameD)}
    ELSE IF label = LabelLanguage
    THEN {LabelLine(label, <<"e","n">>), LabelLine(SmallInitial(label), <<"b","g">>)}
    ELSE IF label = LabelTemperature
    THEN {LabelLine(label, Half), LabelLine(SmallInitial(label), One),
          LabelLine(label, NotANumber)}
    ELSE {LabelLine(label, <<"Y","e","s">>), LabelLine(SmallInitial(label), <<"n","o">>)}

\* the lines that complete a block repeating `label`
BaseFor(label) ==
    IF label = LabelModel THEN <<BaseLines[2]>>
    ELSE IF label = LabelCategory THEN <<BaseLines[1]>>
    ELSE BaseLines

\* one block: up to MaxRepeats lines of one label, the completing lines
\* before, between or after them
RepeatLogsOf(label) ==
    UNION {{JoinLines(SubSeq(q, 1, k) \o BaseFor(label) \o SubSeq(q, k + 1, Len(q))) :
               k \in 0..Len(q)} :
           q \in SeqsUpTo(RepeatLines(label), MaxRepeats) \ {<<>>}}

RepeatLogs == UNION {RepeatLogsOf(label) : label \in Labels}

\* a blank line: empty, or whitespace only
BlankLines == {<<>>, <<" ">>}

GroupOne == JoinLines(BaseLines)
GroupTwo == JoinLines(<<LabelLine(LabelModel, NameC), LabelLine(LabelCategory, NameD)>>)

\* what stands between two groups that n blank lines separate
BlankRun(blanks) == NL \o Concat([i \in 1..Len(blanks) |-> blanks[i] \o NL])

\* two groups separated by one to MaxBlankLines blank lines, with and without
\* a newline before the first and after the second
SeparatorLogs ==
    {lead \o GroupOne \o BlankRun(blanks) \o GroupTwo \o trail :
        blanks \in SeqsUpTo(BlankLines, MaxBlankLines) \ {<<>>},
        lead \in {<<>>, NL}, trail \in {<<>>, NL}}

\* the <<path, content>> pairs generate_visualizations is run on in SpecText
TextLogInputs ==
    {<<[ts |-> NoTs, name |-> <<"d">> \o ExtTxt], TextFile(c)>> :
        c \in CasingLogs \cup RepeatLogs \cup SeparatorLogs}

(***************************************************************************)
(* Specifications.                                                         *)
(***************************************************************************)
\* the application after import: nothing uploaded, no thread.  In Spec no
\* viz call raises; SpecRun is where they do.
Init ==
    /\ current_status = ReadyStatus
    /\ uploads = <<>>
    /\ outdirs = <<>>
    /\ clock = 0
    /\ threads = [t \in Threads |-> IdleThread]
    /\ started = 0
    /\ resets = 0
    /\ faults = 0

Step(t) ==
    \/ SetRunning(t) \/ SetProgress5(t) \/ SetLoading(t) \/ ClearError(t)
    \/ LoadStep(t)
    \/ SetProgress10(t) \/ SetLoaded(t) \/ MakeOutputDir(t)
    \/ SetOutputDir(t) \/ SetProgress15(t)
    \/ StageMessage(t) \/ StageProgress(t) \/ VizCall(t)
    \/ CollectCharts(t) \/ CollectTables(t) \/ SetProgress100(t) \/ SetComplete(t)
    \/ SetError(t) \/ SetErrorMessage(t)
    \/ ClearRunning(t)

Upload == \E u \in UploadInputs : UploadFile(u[1], u[2])

Run == \E t \in Threads : Step(t)

Next == Upload \/ Reset \/ Tick \/ Run

Spec == Init /\ [][Next]_vars

\* one call of generate_visualizations on a path and a file of LoadInputs,
\* in which no viz call raises
InitLoad ==
    \E in \in LoadInputs :
        /\ current_status = ReadyStatus
        /\ uploads = [p \in {in[1]} |-> in[2]]
        /\ outdirs = <<>>
        /\ clock = 0
        /\ threads = [t \in Threads |-> IF t = 1 THEN NewThread(in[1], in[2]) ELSE IdleThread]
        /\ started = 1
        /\ resets = 0
        /\ faults = 0

SpecLoad == InitLoad /\ [][Run]_vars

\* one call of generate_visualizations, alone, in which viz calls may raise
InitRun ==
    \E in \in {<<[ts |-> NoTs, name |-> NameA \o ExtCsv], GoodCsv>>,
               <<[ts |-> NoTs, name |-> NameB \o ExtTxt], GoodText>>,
               <<[ts |-> NoTs, name |-> NameB \o ExtTxt], TextFile(Junk)>>} :
        /\ current_status = ReadyStatus
        /\ uploads = [p \in {in[1]} |-> in[2]]
        /\ outdirs = <<>>
        /\ clock = 0
        /\ threads = [t \in Threads |-> IF t = 1 THEN NewThread(in[1], in[2]) ELSE IdleThread]
        /\ started = 1
        /\ resets = 0
        /\ faults = MaxRaises

SpecRun == InitRun /\ [][Run]_vars

\* one call of generate_visualizations, alone, in which every stage may
\* raise, under the scheduling of a thread: a thread that can take its next
\* statement takes it, and the call that loads the file returns or raises
InitFair ==
    \E in \in {<<[ts |-> NoTs, name |-> NameA \o ExtCsv], GoodCsv>>,
               <<[ts |-> NoTs, name |-> NameA \o ExtCsv], BadFile>>,
               <<[ts |-> NoTs, name |-> NameB \o ExtTxt], GoodText>>,
               <<[ts |-> NoTs, name |-> NameB \o ExtTxt], TextFile(Junk)>>,
               <<[ts |-> NoTs, name |-> <<"c","s","v">>], GoodCsv>>} :
        /\ current_status = ReadyStatus
        /\ uploads = [p \in {in[1]} |-> in[2]]
        /\ outdirs = <<>>
        /\ clock = 0
        /\ threads = [t \in Threads |-> IF t = 1 THEN NewThread(in[1], in[2]) ELSE IdleThread]
        /\ started = 1
        /\ resets = 0
        /\ faults = NumStages

SpecFair ==
    /\ InitFair
    /\ [][Run]_vars
    /\ \A t \in Threads :
          /\ WF_vars(threads[t].pc # "load" /\ Step(t))
          /\ []<>(threads[t].pc # "load")

\* the application when its client posts only while no run is active, as a
\* page does that waits for the run it started to end
Quiet == \A t \in Threads : ~Active(t)

NextSeq == (Quiet /\ Upload) \/ (Quiet /\ Reset) \/ Tick \/ Run

SpecSeq == Init /\ [][NextSeq]_vars

\* one call of generate_visualizations on a text log of TextLogInputs, in
\* which no viz call raises
InitText ==
    \E in \in TextLogInputs :
        /\ current_status = ReadyStatus
        /\ uploads = [p \in {in[1]} |-> in[2]]
        /\ outdirs = <<>>
        /\ clock = 0
        /\ threads = [t \in Threads |-> IF t = 1 THEN NewThread(in[1], in[2]) ELSE IdleThread]
        /\ started = 1
        /\ resets = 0
        /\ faults = 0

SpecText == InitText /\ [][Run]_vars

(***************************************************************************)
(* Properties.                                                             *)
(***************************************************************************)
\* thread t's load step has run
LoadTried(t) == threads[t].loader # "none"

\* thread t holds the table its load step produced
HasTable(t) == LoadTried(t) /\ threads[t].exc = NoExc

\* the rows of df that have both a model and a category
CompleteRows(df) ==
    {i \in 1..FrameLen(df) : RowHas(df, i, "model") /\ RowHas(df, i, "category")}

\* C1: whatever the format, every record of the table a run hands to its
\* stages has a model field and a category field.
C1_NoRecordLacksModelOrCategory ==
    \A t \in Threads :
        HasTable(t) => CompleteRows(threads[t].df) = 1..FrameLen(threads[t].df)

\* C2: a run whose loading yields no record with both model and category
\* executes no stage, never shows progress 100, and ends with the error set.
C2_NoValidRecordsIsTerminal ==
    \A t \in Threads :
        (LoadTried(t) /\ CompleteRows(threads[t].df) = {}) =>
            /\ threads[t].invoked = {}
            /\ current_status.progress # 100
            /\ threads[t].pc = "done" => current_status.error # NoExc

\* C3: in a finished run, for every viz call that raised, every call of a
\* different aggregate family was still invoked.
C3_FamiliesIsolated ==
    \A t \in Threads :
        (threads[t].pc = "done" /\ HasTable(t)) =>
            \A failed \in threads[t].raised :
                \A other \in AllCalls :
                    FamilyOf(other) # FamilyOf(failed) => other \in threads[t].invoked

\* C4: at most one generate_visualizations run is active at any time.
C4_AtMostOneActiveRun == Cardinality({t \in Threads : Active(t)}) <= 1

\* C5: concurrent runs share nothing: each run loads the content that was
\* uploaded for it, and no two runs write to the same output directory.
C5_RunsShareNothing ==
    /\ \A t \in Threads : threads[t].opened => threads[t].read = threads[t].given
    /\ \A t1, t2 \in Threads :
          (t1 # t2 /\ threads[t1].output_dir # NoDir /\ threads[t2].output_dir # NoDir)
              => threads[t1].output_dir # threads[t2].output_dir

\* C6: the status never shows progress 100 together with an error.
C6_CompleteOrError == current_status.progress = 100 => current_status.error = NoExc

SupportedExts == {ExtCsv, ExtJson, ExtTxt}

\* the loader the specification assigns to a supported extension
LoaderOf(e) == IF e = ExtCsv THEN "csv" ELSE IF e = ExtJson THEN "json" ELSE "txt"

\* two strings equal but for the case of their letters
SameIgnoringCase(a, b) ==
    /\ Len(a) = Len(b)
    /\ \A i \in 1..Len(a) :
          \/ a[i] = b[i]
          \/ \E k \in 1..Len(LowerChars) :
                {a[i], b[i]} = {LowerChars[k], UpperChars[k]}

\* C7: a path whose extension is, in any letter case, .csv, .json or .txt
\* takes the matching loader; any other path ends its run with the error
\* "Unsupported file type: <extension>", no file opened, no output directory
\* created and no stage run.
C7_ExtensionDispatch ==
    \A t \in Threads :
        LET th == threads[t]
            ext == Suffix(PathName(th.filepath))
            unsupported == Exc("Unsupported file type: ", ext)
        IN  LoadTried(t) =>
              /\ \A e \in SupportedExts :
                    SameIgnoringCase(ext, e) => th.loader = LoaderOf(e)
              /\ (\A e \in SupportedExts : ~SameIgnoringCase(ext, e)) =>
                    /\ th.exc = unsupported
                    /\ ~th.opened
                    /\ th.output_dir = NoDir /\ DOMAIN outdirs = {}
                    /\ th.invoked = {}
                    /\ th.pc = "done" =>
                          /\ current_status.error = unsupported
                          /\ current_status.message = Msg("Error: ", 0, 0, unsupported)
                          /\ current_status.output_dir = NoDir

\* C7 witness: a run on d.Yaml has ended with the error naming ".Yaml".
C7_Witness ==
    /\ threads[1].pc = "done"
    /\ threads[1].filepath.name = <<"d",".","Y","a","m","l">>
    /\ current_status.error = Exc("Unsupported file type: ", <<".","Y","a","m","l">>)

\* C8: for a .json file, a list gives one record per element, an object
\* gives one record, and any other top-level value makes the load raise.
C8_JsonShapes ==
    \A t \in Threads :
        LET th == threads[t]
        IN  (th.loader = "json" /\ th.read.kind = "json") =>
              /\ th.read.shape = "list" =>
                    (HasTable(t) /\ FrameLen(th.df) = Len(th.read.objects))
              /\ th.read.shape = "object" => (HasTable(t) /\ FrameLen(th.df) = 1)
              /\ th.read.shape = "scalar" => th.exc # NoExc

\* the cell of row i under label k is a value that, when text, is not empty
\* after trimming
NonEmptyField(df, i, k) ==
    /\ RowHas(df, i, k)
    /\ df.rows[i][k].t = "str" => Strip(df.rows[i][k].s) # <<>>

\* C9: every record of a table loaded from a text log has a model and a
\* category that are non-empty after trimming.
C9_NonEmptyModelAndCategory ==
    \A t \in Threads :
        (HasTable(t) /\ threads[t].loader = "txt") =>
            \A i \in 1..FrameLen(threads[t].df) :
                /\ NonEmptyField(threads[t].df, i, "model")
                /\ NonEmptyField(threads[t].df, i, "category")

\* C10: whatever the format, a temperature that is not a floating-point
\* number is left out of its record: in a table, a record with a model and
\* a category has a number for its temperature or has none.
C10_TemperatureIsNumberOrAbsent ==
    \A t \in Threads :
        HasTable(t) =>
            \A i \in CompleteRows(threads[t].df) :
                RowHas(threads[t].df, i, "temperature") =>
                    threads[t].df.rows[i]["temperature"].t \in {"int", "float"}

\* thread t has just left its load step, which took the text-log loader on
\* a readable file
JustParsed(t) ==
    /\ threads[t].pc \in {"L101", "L206"}
    /\ threads[t].loader = "txt"
    /\ threads[t].read.kind = "text"

\* label stands at position j of text, in any letter-casing
LabelAt(text, j, label) ==
    /\ j + Len(label) - 1 <= Len(text)
    /\ Lower(SubSeq(text, j, j + Len(label) - 1)) = Lower(label)

\* text with every label, whatever its casing, written capitalised
Capitalised(text) ==
    [i \in 1..Len(text) |->
        LET hits == {h \in (1..i) \X Labels :
                        i < h[1] + Len(h[2]) /\ LabelAt(text, h[1], h[2])}
        IN  IF hits = {} THEN text[i]
            ELSE LET h == CHOOSE x \in hits : TRUE IN h[2][i - h[1] + 1]]

\* C11: the five labels are recognised whatever their letter-casing: a text
\* log loads to the same table, or fails the same way, as the log in which
\* every label is written capitalised.
C11_LabelsInAnyCasing ==
    \A t \in Threads :
        JustParsed(t) =>
            LET want == LoadData(threads[t].filepath,
                                 TextFile(Capitalised(threads[t].read.text)))
            IN  threads[t].df = want.df /\ threads[t].exc = want.exc

\* the key a label's value is stored under
FieldOf(label) ==
    IF label = LabelModel THEN "model"
    ELSE IF label = LabelCategory THEN "category"
    ELSE IF label = LabelLanguage THEN "language"
    ELSE IF label = LabelTemperature THEN "temperature"
    ELSE "success"

\* what follows the label that begins the line
ValueAfter(line, label) == Strip(SubSeq(line, Len(label) + 1, Len(line)))

\* the value a label's line is to leave in its field: a temperature is a
\* number, a success is 1 for a truthy word and 0 otherwise
FieldCell(label, value) ==
    IF label = LabelTemperature THEN FloatCell(FloatValue(value))
    ELSE IF label = LabelSuccess
    THEN IntCell(IF Lower(value) \in TruthyStrings THEN 1 ELSE 0)
    ELSE StrCell(value)

\* the lines that begin with the label and hold a value that parses
Saying(lines, label) ==
    {i \in 1..Len(lines) :
        /\ LabelAt(Strip(lines[i]), 1, label)
        /\ label = LabelTemperature => IsFloatText(ValueAfter(Strip(lines[i]), label))}

C13_BlankLinesSeparate ==
    \A t \in Threads :
        (JustParsed(t) /\ threads[t].read.text \in SeparatorLogs) =>
            LET want == LoadData(threads[t].filepath,
                                 TextFile(GroupOne \o NL \o NL \o GroupTwo))
            IN  /\ threads[t].exc = NoExc
                /\ FrameLen(threads[t].df) = 2
                /\ threads[t].df = want.df

\* a CSV file with at least one row and no missing field
FullCsv(file) ==
    /\ file.kind = "csv" /\ file.rows # <<>>
    /\ \A i \in 1..Len(file.rows) : \A j \in 1..Len(file.header) :
          file.rows[i][j] \notin NaStrings

\* the JSON file with the content of a CSV file: a list with one object per
\* row, the header's names as keys in the header's order, a field that is a
\* number as a JSON number and any other field as a JSON string
CsvAsJson(file) ==
    JsonListFile([i \in 1..Len(file.rows) |->
                    [j \in 1..Len(file.header) |->
                        <<file.header[j],
                          IF IsFloatText(file.rows[i][j])
                          THEN JsonNumber(file.rows[i][j])
                          ELSE JsonString(file.rows[i][j])>>]])

\* C14: a CSV file and the JSON file with the same records, field names and
\* values load to the same table.
C14_CsvAndJsonAgree ==
    \A t \in Threads :
        LET th == threads[t]
        IN  (th.pc \in {"L101", "L206"} /\ th.loader = "csv" /\ FullCsv(th.read)) =>
               LET want == LoadJson(CsvAsJson(th.read))
               IN  th.exc = want.exc /\ th.df = want.df

\* thread t is between its first statement (line 79) and its last (line 212)
InRun(t) == threads[t].pc \notin {"idle", "L79", "done"}

\* C15: the running flag is True whenever some run has started and has not
\* finished, whatever the interleaving of uploads, runs and resets.
C15_RunningWhileActive ==
    (\E t \in Threads : InRun(t)) => current_status.running

\* every thread started so far was started before the last reset
NoUploadSinceReset == \A t \in 1..started : threads[t].epoch < resets

\* C16: from a reset until the next accepted upload the status is the Ready
\* dictionary of start-up, also when the reset came during a run.
C16_ReadyAfterReset ==
    (resets >= 1 /\ NoUploadSinceReset) => current_status = ReadyStatus

\* C17: every upload that upload_file accepts (in Spec a thread is started
\* for no other) is loaded by one of the three loaders: no run ends with
\* "Unsupported file type".
C17_AcceptedIsDispatched ==
    \A t \in Threads :
        LoadTried(t) =>
            /\ threads[t].loader \in {"csv", "json", "txt"}
            /\ threads[t].exc.type # "Unsupported file type: "

\* thread t is in a run that fails while loading: its load step has raised,
\* or will on the file now at its path
FailsLoading(t) ==
    /\ Active(t)
    /\ IF LoadTried(t) THEN threads[t].exc # NoExc
       ELSE ~LoadData(threads[t].filepath, uploads[threads[t].filepath]).ok

\* C18: a run that fails while loading writes only running, progress,
\* message and error: from its first statement to its last, output_dir,
\* charts and tables stay what they were.
C18_FailedLoadKeepsResults ==
    [][(\E t \in Threads : FailsLoading(t)) =>
           /\ current_status'.output_dir = current_status.output_dir
           /\ current_status'.charts = current_status.charts
           /\ current_status'.tables = current_status.tables]_vars

\* C18 witness: after a first run that completed, a second run has failed
\* while loading and the status still shows the first run's results next to
\* the second run's error.
C18_Witness ==
    /\ threads[1].pc = "done" /\ threads[1].exc = NoExc
    /\ threads[2].pc = "done" /\ threads[2].exc # NoExc
    /\ current_status.error = threads[2].exc
    /\ current_status.output_dir = threads[1].output_dir
    /\ current_status.charts # {} /\ current_status.tables # {}

\* C19: every run that starts finishes, and when it does the running flag
\* is False: whether it completes, fails while loading, or has stages raise.
C19_RunsFinish ==
    \A t \in Threads :
        Active(t) ~> (threads[t].pc = "done" /\ ~current_status.running)

\* C19 witness: a run in which two stages raised has finished and the
\* running flag is False.
C19_Witness ==
    /\ threads[1].pc = "done"
    /\ Cardinality(threads[1].raised) >= 2
    /\ ~current_status.running

\* this step is line 80 of a run that begins while no other run is under way
StartsAlone(t) ==
    /\ threads[t].pc = "L80" /\ threads'[t].pc = "L81"
    /\ \A u \in Threads \ {t} : ~InRun(u)

\* C20: from the start of a run to the next reset the progress shown never
\* decreases: a step lowers it only when it is a reset or the first progress
\* of a run that starts while no other run is under way.
C20_ProgressNeverDecreases ==
    [][current_status'.progress < current_status.progress =>
           (resets' # resets \/ \E t \in Threads : StartsAlone(t))]_vars
====
